---------------------------- MODULE Spec2Model ----------------------------
(***************************************************************************)
(* Model of geospade/operation.py: the edge-flag polygon rasteriser        *)
(* (rasterise_polygon) and the geotransform helpers                        *)
(* (construct_geotransform, xy2ij, ij2xy).                                 *)
(*                                                                         *)
(* Numbers.  Vertex coordinates, resolutions, buffers and pixel indexes    *)
(* are integers.  Quotients the code forms in floating point are kept as   *)
(* exact fractions <<numerator, denominator>> and rounded the way Python 3 *)
(* round() rounds (half to even).  World coordinates returned by ij2xy are *)
(* carried in half units (the "c" anchor adds .5).  Angles and the         *)
(* coefficients of construct_geotransform are carried in thousandths.      *)
(***************************************************************************)
EXTENDS Integers, Sequences, FiniteSets, TLC

VARIABLES
    \* ---- rasterise_polygon(points, sres, buffer)
    points,     \* the ring: a sequence of <<x, y>>
    sres,       \* spatial resolution
    buffer,     \* buffer argument; |buffer| once the call has started
    pc,         \* position in rasterise_polygon
    n_rows,
    n_cols,
    raster,     \* [0 .. n_rows-1 -> [0 .. n_cols-1 -> {0, 1}]]
    idx,        \* contour loop: number of the edge (points[idx] -> points[idx+1])
    y,          \* contour loop: the walk's y coordinate
    i,          \* fill loop: row
    flagged,    \* history: the raster as the contour pass left it
    error,      \* the exception that ended the call, "none" otherwise
    \* ---- geotransform helpers
    gpc,        \* position of the geotransform calls
    gt,         \* 6-tuple geotransform
    gt_origin,  \* construct_geotransform: origin argument
    rot,        \* construct_geotransform: rot argument (degrees when deg,
                \* hundredths of a radian otherwise)
    deg,        \* construct_geotransform: deg argument
    px,         \* construct_geotransform: px argument
    alpha,      \* construct_geotransform: angle used, in thousandths of a radian
    arg_ij,     \* ij2xy: the <<i, j>> argument
    origin,     \* ij2xy: the origin (anchor) argument
    xy,         \* ij2xy result in half units, <<>> when nothing was returned
    ij,         \* xy2ij result, <<>> when nothing was returned
    gerror      \* the exception that ended the last helper call, "none" otherwise

rvars == <<points, sres, buffer, pc, n_rows, n_cols, raster, idx, y, i, flagged, error>>
gvars == <<gpc, gt, gt_origin, rot, deg, px, alpha, arg_ij, origin, xy, ij, gerror>>
vars == <<rvars, gvars>>

----------------------------------------------------------------------------
\* Bounds of the model

\* SpecPoly: ring vertices lie on the grid 0..PolyCoord x 0..PolyCoord
PolyCoord == 2
\* SpecPoly: rings have up to MaxVerts distinct vertices (plus the closing one)
MaxVerts == 4
\* SpecPoly: resolutions -MaxRes .. MaxRes
MaxRes == 2
\* SpecShapes: rectangle corners lie on the grid 0..MaxCoord x 0..MaxCoord
MaxCoord == 3
\* SpecShapes: right triangles (0,0),(a,0),(0,a) with legs a in 1..MaxLeg
MaxLeg == 4
\* SpecShapes: buffers -MaxBuffer .. MaxBuffer
MaxBuffer == 2

----------------------------------------------------------------------------
\* Arithmetic helpers

Abs(a) == IF a < 0 THEN -a ELSE a

\* Python 3 round() of the fraction n/d (d # 0): nearest integer, ties to even
round(n, d) ==
    LET nn == IF d < 0 THEN -n ELSE n
        dd == IF d < 0 THEN -d ELSE d
        q  == nn \div dd
        r  == nn % dd
    IN  IF 2 * r < dd THEN q
        ELSE IF 2 * r > dd THEN q + 1
        ELSE IF q % 2 = 0 THEN q ELSE q + 1

RECURSIVE SeqSum(_)
\* Python sum() of a sequence of numbers
SeqSum(s) == IF s = <<>> THEN 0 ELSE s[1] + SeqSum(Tail(s))

SetMin(S) == CHOOSE m \in S : \A e \in S : m <= e
SetMax(S) == CHOOSE m \in S : \A e \in S : m >= e

----------------------------------------------------------------------------
\* rasterise_polygon: extent of the polygon and grid size

xs == { points[k][1] : k \in 1..Len(points) }
ys == { points[k][2] : k \in 1..Len(points) }
x_min == SetMin(xs)
x_max == SetMax(xs)
y_min == SetMin(ys)
y_max == SetMax(ys)

\* np.zeros((n_rows, n_cols), np.uint8)
zeros(nr, nc) == [r \in 0..(nr - 1) |-> [c \in 0..(nc - 1) |-> 0]]

\* lines 36-50: |buffer|, bounding box, grid size, empty raster.
\* sres = 0 divides by zero; a negative size is refused by np.zeros.
RasterInit ==
    /\ pc = "start"
    /\ buffer' = Abs(buffer)
    /\ IF sres = 0
       THEN /\ error' = "ZeroDivisionError"
            /\ pc' = "error"
            /\ UNCHANGED <<n_rows, n_cols, raster, idx>>
       ELSE LET nr == round(y_max - y_min, sres) + 1 + 2 * Abs(buffer)
                nc == round(x_max - x_min, sres) + 1 + 2 * Abs(buffer)
            IN  IF nr < 0 \/ nc < 0
                THEN /\ error' = "ValueError"
                     /\ pc' = "error"
                     /\ UNCHANGED <<n_rows, n_cols, raster, idx>>
                ELSE /\ n_rows' = nr
                     /\ n_cols' = nc
                     /\ raster' = zeros(nr, nc)
                     /\ idx' = 1
                     /\ pc' = "contour"
                     /\ UNCHANGED error
    /\ UNCHANGED <<points, sres, y, i, flagged, gvars>>

----------------------------------------------------------------------------
\* rasterise_polygon: contour pass

x_1 == points[idx][1]
x_2 == points[idx + 1][1]
y_1 == points[idx][2]
y_2 == points[idx + 1][2]
x_diff == x_2 - x_1
y_diff == y_2 - y_1

y_start == IF y_1 < y_2 THEN y_1 ELSE y_2
y_end   == IF y_1 < y_2 THEN y_2 ELSE y_1
x_start == IF y_1 < y_2 THEN x_1 ELSE x_2

\* lines 53-76: next edge of the ring; a horizontal edge is skipped, any other
\* edge starts its walk at its lower endpoint.  After the last edge the fill
\* pass starts.
ContourEdge ==
    /\ pc = "contour"
    /\ IF idx >= Len(points)
       THEN /\ pc' = "fill"
            /\ i' = 0
            /\ flagged' = raster
            /\ UNCHANGED <<idx, y>>
       ELSE IF y_diff = 0
            THEN /\ idx' = idx + 1
                 /\ UNCHANGED <<pc, y, i, flagged>>
            ELSE /\ y' = y_start
                 /\ pc' = "walk"
                 /\ UNCHANGED <<idx, i, flagged>>
    /\ UNCHANGED <<points, sres, buffer, n_rows, n_cols, raster, error, gvars>>

\* mutant: the walk stops on reaching y_end, leaving the upper endpoint out
WalkStopsAtEnd == Abs(y - y_end) # 0

\* line 77: the walk goes on while |y - y_end - sres| >= EPS (EPS = 1e-6; all
\* three are integers here, so the test is y - y_end - sres # 0)
WalkContinues == Abs(y - y_end - sres) # 0

\* lines 78-81: x on the edge at height y, as a fraction; k = y_diff / x_diff
x == IF x_diff # 0
     THEN <<(y - y_start) * x_diff + x_start * y_diff, y_diff>>
     ELSE <<x_start, 1>>

\* mutant: rows counted from the bottom of the bounding box
row_index_from_bottom == round(Abs(y - y_min), sres) + buffer

\* lines 84-85: raster indexes of (x, y)
row_index == round(Abs(y - y_max), sres) + buffer
col_index == round(Abs(x[1] - x_min * x[2]), Abs(x[2]) * sres) + buffer

\* numpy indexing: an index in -n .. -1 counts from the end, anything outside
\* -n .. n-1 raises IndexError
InRange(k, n) == -n <= k /\ k < n
Wrap(k, n) == IF k < 0 THEN k + n ELSE k

\* lines 77-87: one iteration of the walk (flag a cell, step y by sres), or
\* the end of the walk, or an IndexError from raster[i, j] = 1
ContourWalk ==
    /\ pc = "walk"
    /\ IF ~WalkContinues
       THEN /\ idx' = idx + 1
            /\ pc' = "contour"
            /\ UNCHANGED <<raster, y, error>>
       ELSE IF InRange(row_index, n_rows) /\ InRange(col_index, n_cols)
            THEN /\ raster' = [raster EXCEPT ![Wrap(row_index, n_rows)]
                                                 [Wrap(col_index, n_cols)] = 1]
                 /\ y' = y + sres
                 /\ UNCHANGED <<idx, pc, error>>
            ELSE /\ error' = "IndexError"
                 /\ pc' = "error"
                 /\ UNCHANGED <<raster, idx, y>>
    /\ UNCHANGED <<points, sres, buffer, n_rows, n_cols, i, flagged, gvars>>

----------------------------------------------------------------------------
\* rasterise_polygon: fill pass

\* line 96: ~ on a Python bool/int is bitwise negation: ~False = -1, ~(-1) = 0
Invert(b) == -b - 1

RECURSIVE FillCols(_, _, _)
\* lines 94-98: scan row r from column j on with toggle is_inner (0 = False)
FillCols(r, j, is_inner) ==
    IF j >= n_cols THEN r
    ELSE LET t == IF r[j] # 0 THEN Invert(is_inner) ELSE is_inner
         IN  FillCols(IF t # 0 THEN [r EXCEPT ![j] = 1] ELSE r, j + 1, t)

\* sum(raster[i, :])
RowSum(r) == SeqSum([c \in 1..n_cols |-> r[c - 1]])

\* lines 90-98: one row of the fill pass
FillRow ==
    /\ pc = "fill"
    /\ i < n_rows
    /\ raster' = IF RowSum(raster[i]) < 2
                 THEN raster
                 ELSE [raster EXCEPT ![i] = FillCols(raster[i], 0, 0)]
    /\ i' = i + 1
    /\ UNCHANGED <<points, sres, buffer, pc, n_rows, n_cols, idx, y, flagged, error, gvars>>

----------------------------------------------------------------------------
\* rasterise_polygon: buffer (erosion and crop)

\* cv2.erode with a 3x3 kernel of ones, one iteration: a pixel stays 1 only if
\* it and all its neighbours inside the image are 1
Erode(m, nr, nc) ==
    [r \in 0..(nr - 1) |-> [c \in 0..(nc - 1) |->
        IF \A rr \in (r - 1)..(r + 1), cc \in (c - 1)..(c + 1) :
               (rr \in 0..(nr - 1) /\ cc \in 0..(nc - 1)) => m[rr][cc] = 1
        THEN 1 ELSE 0]]

RECURSIVE ErodeN(_, _, _, _)
\* cv2.erode(raster, kernel, iterations=n)
ErodeN(m, nr, nc, n) == IF n <= 0 THEN m ELSE ErodeN(Erode(m, nr, nc), nr, nc, n - 1)

\* mutant: the crop keeps the top-left corner instead of the centre
CropNoOffset(m, nr, nc, b) ==
    [r \in 0..(nr - 2 * b - 1) |-> [c \in 0..(nc - 2 * b - 1) |-> m[r][c]]]

\* raster[b:-b, b:-b]
Crop(m, nr, nc, b) ==
    [r \in 0..(nr - 2 * b - 1) |-> [c \in 0..(nc - 2 * b - 1) |-> m[r + b][c + b]]]

\* lines 100-105: erode buffer times and strip the padding, then return
BufferCrop ==
    /\ pc = "fill"
    /\ i >= n_rows
    /\ IF buffer # 0
       THEN /\ raster' = Crop(ErodeN(raster, n_rows, n_cols, buffer), n_rows, n_cols, buffer)
            /\ n_rows' = n_rows - 2 * buffer
            /\ n_cols' = n_cols - 2 * buffer
       ELSE UNCHANGED <<raster, n_rows, n_cols>>
    /\ pc' = "done"
    /\ UNCHANGED <<points, sres, buffer, idx, y, i, flagged, error, gvars>>

----------------------------------------------------------------------------
\* Inputs of rasterise_polygon

Grid(n) == (0..n) \X (0..n)

\* closed rings with k distinct vertices on Grid(n): the first vertex is
\* repeated at the end
RingsOf(k, n) ==
    { Append(s, s[1]) :
        s \in { t \in [1..k -> Grid(n)] : \A a, b \in 1..k : a # b => t[a] # t[b] } }

\* closed rings with up to kmax distinct vertices on Grid(n)
RingsUpTo(kmax, n) == UNION { RingsOf(k, n) : k \in 1..kmax }

\* the closed ring over four corners, starting at corner s, in direction d
RingFrom(c, s, d) == [k \in 1..5 |-> c[((s - 1 + d * (k - 1)) % 4) + 1]]

\* closed axis-aligned rectangle rings, every starting corner, both orientations
Rectangles ==
    { RingFrom(<<<<x0, y0>>, <<x1, y0>>, <<x1, y1>>, <<x0, y1>>>>, s, d) :
        x0 \in 0..MaxCoord, x1 \in 0..MaxCoord, y0 \in 0..MaxCoord, y1 \in 0..MaxCoord,
        s \in 1..4, d \in {1, -1} }

\* closed right triangles (0,0), (a,0), (0,a), (0,0)
Triangles == { <<<<0, 0>>, <<a, 0>>, <<0, a>>, <<0, 0>>>> : a \in 1..MaxLeg }

\* the geotransform helpers are not called
GIdle ==
    /\ gpc = "idle"
    /\ gt = <<>>
    /\ gt_origin = <<>>
    /\ rot = 0
    /\ deg = TRUE
    /\ px = <<>>
    /\ alpha = 0
    /\ arg_ij = <<>>
    /\ origin = ""
    /\ xy = <<>>
    /\ ij = <<>>
    /\ gerror = "none"

RasterCall(rings, resolutions, buffers) ==
    /\ points \in rings
    /\ sres \in resolutions
    /\ buffer \in buffers
    /\ pc = "start"
    /\ n_rows = 0
    /\ n_cols = 0
    /\ raster = zeros(0, 0)
    /\ idx = 0
    /\ y = 0
    /\ i = 0
    /\ flagged = zeros(0, 0)
    /\ error = "none"

NextRaster ==
    \/ RasterInit
    \/ ContourEdge
    \/ ContourWalk
    \/ FillRow
    \/ BufferCrop

\* rasterise_polygon on arbitrary small rings at any resolution, buffer 0
InitPoly == RasterCall(RingsUpTo(MaxVerts, PolyCoord), (-MaxRes)..MaxRes, {0}) /\ GIdle
SpecPoly == InitPoly /\ [][NextRaster]_vars

\* rasterise_polygon on rectangles and right triangles at resolution 1
InitShapes ==
    /\ RasterCall({ r \in Rectangles : r[1] # r[2] /\ r[2] # r[3] } \cup Triangles,
                  {1}, (-MaxBuffer)..MaxBuffer)
    /\ GIdle
SpecShapes == InitShapes /\ [][NextRaster]_vars

----------------------------------------------------------------------------
\* Geometry of the ring, stated independently of the rasteriser

\* twice the signed area of the triangle a, b, p
Cross(a, b, p) == (b[1] - a[1]) * (p[2] - a[2]) - (b[2] - a[2]) * (p[1] - a[1])

Between(u, v, w) == (u <= w /\ w <= v) \/ (v <= w /\ w <= u)

\* p lies on the closed segment a-b
OnSegment(p, a, b) ==
    /\ Cross(a, b, p) = 0
    /\ Between(a[1], b[1], p[1])
    /\ Between(a[2], b[2], p[2])

Sign(a) == IF a > 0 THEN 1 ELSE IF a < 0 THEN -1 ELSE 0

\* the closed segments a-b and c-d have a common point
SegmentsMeet(a, b, c, d) ==
    \/ /\ Sign(Cross(a, b, c)) * Sign(Cross(a, b, d)) < 0
       /\ Sign(Cross(c, d, a)) * Sign(Cross(c, d, b)) < 0
    \/ OnSegment(c, a, b)
    \/ OnSegment(d, a, b)
    \/ OnSegment(a, c, d)
    \/ OnSegment(b, c, d)

NEdges(ring) == Len(ring) - 1

\* number of distinct vertices of the ring
NVertices(ring) == Cardinality({ ring[k] : k \in 1..Len(ring) })

\* all vertices of the ring lie on one line
Collinear(ring) ==
    \A a, b, c \in { ring[k] : k \in 1..Len(ring) } : Cross(a, b, c) = 0

\* a closed ring that bounds a simple polygon: at least three distinct
\* vertices, each used once, neighbouring edges meet only in their common
\* vertex and other edges do not meet at all
IsSimple(ring) ==
    LET n == NEdges(ring)
        Adjacent(k, m) == m = k + 1 \/ (k = 1 /\ m = n)
    IN  /\ n >= 3
        /\ ring[1] = ring[n + 1]
        /\ NVertices(ring) = n
        /\ \A k, m \in 1..n :
              k < m =>
                IF Adjacent(k, m)
                THEN LET v == IF m = k + 1 THEN ring[m] ELSE ring[1]
                         u == IF m = k + 1 THEN ring[k] ELSE ring[2]
                         w == IF m = k + 1 THEN ring[m + 1] ELSE ring[n]
                     IN  ~OnSegment(u, v, w) /\ ~OnSegment(w, v, u)
                ELSE ~SegmentsMeet(ring[k], ring[k + 1], ring[m], ring[m + 1])

\* p lies on an edge of the ring
OnBoundary(p, ring) ==
    \E k \in 1..NEdges(ring) : OnSegment(p, ring[k], ring[k + 1])

\* edge a-b crosses the horizontal ray from p to the right
CrossesRay(p, a, b) ==
    /\ (a[2] > p[2]) # (b[2] > p[2])
    /\ IF b[2] > a[2]
       THEN (p[1] - a[1]) * (b[2] - a[2]) < (p[2] - a[2]) * (b[1] - a[1])
       ELSE (p[1] - a[1]) * (b[2] - a[2]) > (p[2] - a[2]) * (b[1] - a[1])

\* p lies inside the polygon or on its boundary (even-odd rule)
InsideOrOn(p, ring) ==
    \/ OnBoundary(p, ring)
    \/ Cardinality({ k \in 1..NEdges(ring) : CrossesRay(p, ring[k], ring[k + 1]) }) % 2 = 1

\* a closed axis-aligned rectangle ring with width and height >= 1
IsRectangle(ring) ==
    /\ Len(ring) = 5
    /\ ring[1] = ring[5]
    /\ x_min < x_max
    /\ y_min < y_max
    /\ { ring[k] : k \in 1..4 } = {x_min, x_max} \X {y_min, y_max}
    /\ \A k \in 1..4 : (ring[k][1] = ring[k + 1][1]) # (ring[k][2] = ring[k + 1][2])

\* world coordinates of the grid point of cell (r, c) at resolution 1
GridPoint(r, c) == <<x_min + c, y_max - r>>

Rows == 0..(n_rows - 1)
Cols == 0..(n_cols - 1)

\* number of 1-cells of row r of the returned mask
RowWidth(r) == Cardinality({ c \in Cols : raster[r][c] = 1 })

\* number of 1-cells of the returned mask
OnesCount == SeqSum([k \in 1..n_rows |-> RowWidth(k - 1)])

----------------------------------------------------------------------------
\* Claims about rasterise_polygon

\* C1: for every simple closed ring with integer vertices, at resolution 1 and
\* buffer 0, every cell whose grid point lies inside or on the polygon is 1
\* and every cell whose grid point lies strictly outside and was not flagged
\* by the contour pass is 0.
C1_MaskMatchesPolygon ==
    (pc = "done" /\ sres = 1 /\ buffer = 0 /\ IsSimple(points)) =>
        \A r \in Rows, c \in Cols :
            /\ InsideOrOn(GridPoint(r, c), points) => raster[r][c] = 1
            /\ (~InsideOrOn(GridPoint(r, c), points) /\ flagged[r][c] = 0)
                   => raster[r][c] = 0

\* C2: for a closed axis-aligned rectangle ring of width w >= 1 and height
\* h >= 1, at resolution 1 and buffer 0, the mask has h+1 rows and w+1 columns
\* and all of its (h+1)*(w+1) cells are 1.
C2_RectangleFilled ==
    (pc = "done" /\ sres = 1 /\ buffer = 0 /\ IsRectangle(points)) =>
        /\ n_rows = (y_max - y_min) + 1
        /\ n_cols = (x_max - x_min) + 1
        /\ \A r \in Rows, c \in Cols : raster[r][c] = 1
        /\ OnesCount = ((y_max - y_min) + 1) * ((x_max - x_min) + 1)

C2_Witness ==
    /\ pc = "done"
    /\ buffer = 0
    /\ points = <<<<0, 0>>, <<2, 0>>, <<2, 2>>, <<0, 2>>, <<0, 0>>>>
    /\ OnesCount = 9

Triangle4 == <<<<0, 0>>, <<4, 0>>, <<0, 4>>, <<0, 0>>>>

\* C3 as stated: for the triangle (0,0),(4,0),(0,4),(0,0) at resolution 1 and
\* buffer 0 the row width is non-increasing from row 0 to the last row.
C3_RowWidthNonIncreasing ==
    (pc = "done" /\ sres = 1 /\ buffer = 0 /\ points = Triangle4) =>
        \A r \in Rows : r + 1 \in Rows => RowWidth(r) >= RowWidth(r + 1)

\* C3 as amended: for the triangle (0,0),(4,0),(0,4),(0,0) at resolution 1 and
\* buffer 0 the row width is non-decreasing from row 0 (topmost, the apex at
\* maximum y) to the last row: 1, 2, 3, 4, 5.
C3_RowWidthNonDecreasing ==
    (pc = "done" /\ sres = 1 /\ buffer = 0 /\ points = Triangle4) =>
        /\ n_rows = 5
        /\ \A r \in Rows : r + 1 \in Rows => RowWidth(r) <= RowWidth(r + 1)
        /\ \A r \in Rows : RowWidth(r) = r + 1

C3_Witness ==
    /\ pc = "done"
    /\ buffer = 0
    /\ points = Triangle4
    /\ RowWidth(0) = 1
    /\ RowWidth(4) = 5

\* C4: for a closed axis-aligned rectangle ring (width w, height h), at
\* resolution 1 and buffer b >= 1, the mask has h+1 rows and w+1 columns and
\* cell (r, c) is 1 exactly when b <= r <= h-b and b <= c <= w-b.
C4_BufferShrinksRectangle ==
    (pc = "done" /\ sres = 1 /\ buffer >= 1 /\ IsRectangle(points)) =>
        LET h == y_max - y_min
            w == x_max - x_min
        IN  /\ n_rows = h + 1
            /\ n_cols = w + 1
            /\ \A r \in Rows, c \in Cols :
                  raster[r][c] = 1 <=>
                      (buffer <= r /\ r <= h - buffer /\ buffer <= c /\ c <= w - buffer)

C4_Witness ==
    /\ pc = "done"
    /\ buffer = 1
    /\ IsRectangle(points)
    /\ x_max - x_min = 3
    /\ y_max - y_min = 2
    /\ raster[1][1] = 1
    /\ raster[1][2] = 1
    /\ OnesCount = 2

\* C6: rasterise_polygon fails, returning no mask, whenever the ring has
\* fewer than 3 vertices or all of its vertices are collinear.
C6_DegenerateRingFails ==
    (sres > 0 /\ (NVertices(points) < 3 \/ Collinear(points))) => pc # "done"

\* C7: rasterise_polygon fails, returning no mask, for every resolution <= 0
\* (stated here for the rings that are valid polygons).
C7_NonPositiveResolutionFails ==
    (sres <= 0 /\ IsSimple(points)) => pc # "done"

\* C10: for every ring with at least 3 vertices (stated here for the rings
\* that are simple polygons) and every resolution > 0 the
\* walk of an edge flags cells only at y values between the edge's lower and
\* upper endpoint and rasterise_polygon ends by returning a mask, not by
\* indexing outside the grid.
C10_WalkStaysOnEdgeAndReturns ==
    (sres > 0 /\ IsSimple(points)) =>
        /\ (pc = "walk" /\ WalkContinues) => (y_start <= y /\ y <= y_end)
        /\ pc # "error"

----------------------------------------------------------------------------
\* Geotransform helpers: ij2xy and xy2ij

\* SpecGT: pixel sizes -MaxPx .. MaxPx
MaxPx == 2
\* SpecGT: pixel indexes -MaxIdx .. MaxIdx
MaxIdx == 2

\* lines 436-440: pixel shift of each origin, in half pixels
px_shift_map ==
    [ul |-> <<0, 0>>, ur |-> <<2, 0>>, lr |-> <<2, 2>>, ll |-> <<0, 2>>, c |-> <<1, 1>>]

\* mutant: the pixel shift of the origin is not added
ij2xy_no_shift(ii, jj, g, org) ==
    <<2 * g[1] + 2 * ii * g[2] + 2 * jj * g[3],
      2 * g[4] + 2 * ii * g[5] + 2 * jj * g[6]>>

\* lines 443-454 of ij2xy for a known origin: <<x, y>> in half units.
\* g[1] .. g[6] are gt[0] .. gt[5].
ij2xy(ii, jj, g, org) ==
    LET px_shift == px_shift_map[org]
        i2 == 2 * ii + px_shift[1]
        j2 == 2 * jj + px_shift[2]
    IN  <<2 * g[1] + i2 * g[2] + j2 * g[3],
          2 * g[4] + i2 * g[5] + j2 * g[6]>>

\* mutant: the leading factor -1.0 of both quotients is dropped
xy2ij_no_negation(w, g) ==
    LET den == g[3] * g[5] - g[2] * g[6]
        inum == 2 * g[3] * g[4] - 2 * g[1] * g[6] + g[6] * w[1] - g[3] * w[2]
        jnum == (-1) * 2 * g[2] * g[4] + 2 * g[1] * g[5] - g[5] * w[1] + g[2] * w[2]
    IN  <<round(inum, 2 * den), round(jnum, 2 * den)>>

\* lines 401-405: xy2ij for <<x, y>> = w in half units (the denominator is
\* not zero)
xy2ij(w, g) ==
    LET den == g[3] * g[5] - g[2] * g[6]
        inum == 2 * g[3] * g[4] - 2 * g[1] * g[6] + g[6] * w[1] - g[3] * w[2]
        jnum == (-1) * 2 * g[2] * g[4] + 2 * g[1] * g[5] - g[5] * w[1] + g[2] * w[2]
    IN  <<round((-1) * inum, 2 * den), round((-1) * jnum, 2 * den)>>

\* ij2xy(i, j, gt, origin): an unknown origin raises Warning (line 446), so
\* the fallback of line 447 is never taken
Ij2xy ==
    /\ gpc = "ready"
    /\ \E ii \in (-MaxIdx)..MaxIdx, jj \in (-MaxIdx)..MaxIdx,
          org \in {"ul", "ur", "lr", "ll", "c", "xx", "center"} :
          /\ arg_ij' = <<ii, jj>>
          /\ origin' = org
          /\ IF org \in DOMAIN px_shift_map
             THEN /\ xy' = ij2xy(ii, jj, gt, org)
                  /\ gerror' = "none"
             ELSE /\ xy' = <<>>
                  /\ gerror' = "Warning"
    /\ gpc' = "forward"
    /\ UNCHANGED <<gt, gt_origin, rot, deg, px, alpha, ij, rvars>>

\* xy2ij(x, y, gt) on the coordinates ij2xy returned; a singular geotransform
\* divides by zero
Xy2ij ==
    /\ gpc = "forward"
    /\ gerror = "none"
    /\ IF gt[3] * gt[5] - gt[2] * gt[6] = 0
       THEN /\ ij' = <<>>
            /\ gerror' = "ZeroDivisionError"
       ELSE /\ ij' = xy2ij(xy, gt)
            /\ UNCHANGED gerror
    /\ gpc' = "inverse"
    /\ UNCHANGED <<gt, gt_origin, rot, deg, px, alpha, arg_ij, origin, xy, rvars>>

\* rasterise_polygon is not called
RIdle == RasterCall({<<>>}, {1}, {0})

PxSizes == (-MaxPx)..MaxPx
RotTerms == {-1, 0, 1}
Origins == {-3, 5}

InitGT ==
    /\ gt \in { <<ox, pw, rx, oy, ry, ph>> :
                  ox \in Origins, pw \in PxSizes, rx \in RotTerms,
                  oy \in Origins, ry \in RotTerms, ph \in PxSizes }
    /\ gpc = "ready"
    /\ gt_origin = <<>>
    /\ rot = 0
    /\ deg = TRUE
    /\ px = <<>>
    /\ alpha = 0
    /\ arg_ij = <<>>
    /\ origin = ""
    /\ xy = <<>>
    /\ ij = <<>>
    /\ gerror = "none"
    /\ RIdle

NextGT ==
    \/ Ij2xy
    \/ Xy2ij

SpecGT == InitGT /\ [][NextGT]_vars

\* C5: for a geotransform with both rotation terms zero and nonzero pixel
\* sizes and for all integers i, j, xy2ij applied to ij2xy(i, j, "ul") returns
\* exactly (i, j).
C5_RoundTrip ==
    (gpc = "inverse" /\ origin = "ul" /\ gt[3] = 0 /\ gt[5] = 0
        /\ gt[2] # 0 /\ gt[6] # 0) =>
        /\ gerror = "none"
        /\ ij = arg_ij

C5_Witness ==
    /\ gpc = "inverse"
    /\ origin = "ul"
    /\ gt = <<5, 2, 0, -3, 0, -1>>
    /\ arg_ij = <<2, -1>>
    /\ xy = <<18, -4>>
    /\ ij = <<2, -1>>

\* the offset (dx, dy) of each recognised anchor, in half pixels
AnchorOffset(a) ==
    CASE a = "ul" -> <<0, 0>>
      [] a = "ur" -> <<2, 0>>
      [] a = "lr" -> <<2, 2>>
      [] a = "ll" -> <<0, 2>>
      [] a = "c"  -> <<1, 1>>

----------------------------------------------------------------------------
\* construct_geotransform

\* SpecConstruct: rot in 0 .. MaxRot
MaxRot == 90

\* pi in millionths, as math.radians, math.cos and math.sin use it
PiMicro == 3141593

\* math.radians(d) as a fraction
radians(d) == <<d * PiMicro, 180 * 1000000>>

RECURSIVE Series(_, _, _)
\* sum of the Taylor terms from `term` (the term of power n) on, each term
\* being the one before times -a^2 / ((n+1)(n+2)); a and terms in thousandths
Series(term, a, n) ==
    IF term = 0 THEN 0
    ELSE term + Series(round((-1) * round(term * a, 1000) * a,
                             1000 * (n + 1) * (n + 2)), a, n + 2)

\* math.cos and math.sin of an angle in thousandths of a radian, in thousandths
cos(a) == Series(1000, a, 0)
sin(a) == Series(a, a, 1)

\* line 170: alpha = round(math.radians(rot)) if deg else rot, in thousandths
\* of a radian (rot without deg is in hundredths of a radian)
alpha_of(r, d) ==
    IF d THEN 1000 * round(radians(r)[1], radians(r)[2]) ELSE 10 * r

\* lines 168-176: the geotransform, origin as given, coefficients in thousandths
construct_geotransform(o, r, p, d) ==
    LET a == alpha_of(r, d)
    IN  <<o[1], cos(a) * p[1], (-1) * sin(a) * p[1], o[2], sin(a) * p[2], cos(a) * p[2]>>

Construct ==
    /\ gpc = "new"
    /\ alpha' = alpha_of(rot, deg)
    /\ gt' = construct_geotransform(gt_origin, rot, px, deg)
    /\ gpc' = "constructed"
    /\ UNCHANGED <<gt_origin, rot, deg, px, arg_ij, origin, xy, ij, gerror, rvars>>

PixelSizes == {1, 2, 10}

InitConstruct ==
    /\ gpc = "new"
    /\ gt_origin \in {<<0, 0>>, <<100, 200>>}
    /\ rot \in 0..MaxRot
    /\ deg \in BOOLEAN
    /\ px \in PixelSizes \X PixelSizes
    /\ gt = <<>>
    /\ alpha = 0
    /\ arg_ij = <<>>
    /\ origin = ""
    /\ xy = <<>>
    /\ ij = <<>>
    /\ gerror = "none"
    /\ RIdle

NextConstruct == Construct

SpecConstruct == InitConstruct /\ [][NextConstruct]_vars

\* C9: with the angle given in degrees, for every integer-degree input d the
\* angle whose cosine and sine scale the pixel sizes is d*pi/180 radians (10
\* degrees gives about 0.1745 rad, a nonzero rotation), and the coefficients
\* are cos(angle)*x_size, -sin(angle)*x_size, sin(angle)*y_size,
\* cos(angle)*y_size.
C9_DegreesConverted ==
    (gpc = "constructed" /\ deg) =>
        LET a == round(rot * PiMicro, 180 * 1000)
        IN  /\ alpha = a
            /\ gt[2] = cos(a) * px[1]
            /\ gt[3] = (-1) * sin(a) * px[1]
            /\ gt[5] = sin(a) * px[2]
            /\ gt[6] = cos(a) * px[2]

============================================================================
